---- MODULE Spec2Model ----
(***************************************************************************)
(* Model of the beer tracker cog (src/frontroomsbot/cogs/beer_tracker.py): *)
(* the beer_tracker collection, the two writing commands (/beer,           *)
(* /beer_delete) and the four reading commands (/my_beers, /beer_stats,    *)
(* /beer_leaderboard, /beer_last).                                         *)
(*                                                                         *)
(* Time is counted in seconds of Prague wall-clock time from a midnight;   *)
(* the server clock is taken to run in UTC, so that the naive              *)
(* datetime.now() of log_beer and ts_to_prague_time agree on an instant.   *)
(* Daylight-saving shifts are not modelled.                                *)
(*                                                                         *)
(* store   the beer_tracker collection, its documents in scan order        *)
(* clock   the wall clock                                                  *)
(* nextId  the number of uuid4 values drawn so far                         *)
(* ticks   the number of clock steps taken                                 *)
(* last    the reply of the last writing command, with its arguments       *)
(* answer  the reply of the reading command just run, NoAnswer otherwise   *)
(* before  the collection as it was when the last writing command started  *)
(* calls   the bag of writing commands suspended at an await               *)
(***************************************************************************)
EXTENDS Integers, Sequences, FiniteSets, Bags, TLC

VARIABLES store, clock, nextId, ticks, before, last, answer, calls

vars == <<store, clock, nextId, ticks, before, last, answer, calls>>

(***************************************************************************)
(* Bounds of the model.                                                    *)
(***************************************************************************)
NumUsers == 2

MaxIds == 3

MaxTicks == 1

MaxQueryIds == 2

MaxPage == 3

MaxMultiple == 3

MaxCalls == 2

(***************************************************************************)
(* Program constants.                                                      *)
(***************************************************************************)
SecondsPerMinute == 60

SecondsPerHour == 3600

SecondsPerDay == 86400

DaysPerWeek == 7

DaysPerMonth == 30

DaysPerYear == 365

(***************************************************************************)
(* Input domains.                                                          *)
(***************************************************************************)
Users == 1..NumUsers

\* The name the identity provider gives for a user ...
UserName(u) == IF u = 1 THEN "ann" ELSE IF u = 2 THEN "bob" ELSE "cyd"

\* ... and the names a user is seen with over time: user 1 renames.
NamesOf(u) == IF u = 1 THEN {UserName(u), "anna"} ELSE {UserName(u)}

DrinkTypes == {"beer", "cider"}

TypeFilters == {"beer", "cider", "all"}

Periods == {"none", "day", "week", "month", "year"}

Limits == {1, 2}

Pages == 1..MaxPage

BoardLimits == {1, 2}

\* Steps by which the wall clock advances between two commands.
Deltas == {SecondsPerDay \div 2, DaysPerWeek * SecondsPerDay,
           DaysPerMonth * SecondsPerDay, DaysPerYear * SecondsPerDay}

\* The time of day at which the service starts: noon.
StartClock == SecondsPerDay \div 2

\* The value of a dictionary key that is absent (dict.get returns None).
Missing == "missing"

\* No record (find_one returns None).
NoRecord == [user_id |-> 0]

\* No reading command has replied since the last writing command.
NoAnswer == [op |-> "none"]

(***************************************************************************)
(* uuid: the text of an id.  A text is the canonical text str(uuid4())     *)
(* produces, another text uuid.UUID() accepts (upper case, braces, urn:    *)
(* prefix, no hyphens), or a text uuid.UUID() rejects with ValueError.     *)
(***************************************************************************)
UuidForms == {"canonical", "variant", "malformed"}

\* The texts a caller types: every canonical text, and one of each other form.
UuidTexts ==
    [form : {"canonical"}, n : 1..MaxIds]
        \cup [form : {"variant", "malformed"}, n : {1}]

\* str(uuid.uuid4()) for the n-th id drawn: the canonical text.
StrUuid4(n) == [form |-> "canonical", n |-> n]

\* uuid.UUID(text): the id number, or ValueError (ok = FALSE).
ParseUuid(text) ==
    IF text.form = "malformed" THEN [ok |-> FALSE, n |-> 0]
    ELSE [ok |-> TRUE, n |-> text.n]

(***************************************************************************)
(* Sequence helpers (list comprehensions, slices).                         *)
(***************************************************************************)
\* [b for b in seq if Keep(b)]
SelectWhere(seq, Keep(_)) == SelectSeq(seq, Keep)

\* seq[start:end] of Python, start and end counted from 0.
Slice(seq, start, end) ==
    LET lo == IF start < Len(seq) THEN start ELSE Len(seq)
        hi == IF end < Len(seq) THEN end ELSE Len(seq)
    IN  IF lo >= hi THEN <<>> ELSE SubSeq(seq, lo + 1, hi)

\* b.get("type", "beer") == "beer"
IsBeer(b) == (IF b.type = Missing THEN "beer" ELSE b.type) = "beer"

\* b.get("type") == "cider"
IsCider(b) == b.type = "cider"

\* The three branches that select the events of a drink_type.
FilterByType(beers, drink_type) ==
    IF drink_type = "beer" THEN SelectWhere(beers, IsBeer)
    ELSE IF drink_type = "cider" THEN SelectWhere(beers, IsCider)
    ELSE beers

(***************************************************************************)
(* The collection: a sequence of documents in scan order.                  *)
(***************************************************************************)
\* The position of the first document that matches, 0 when none does.
FirstIndex(s, Match(_), from) ==
    LET hits == {i \in from..Len(s) : Match(s[i])}
    IN  IF hits = {} THEN 0
        ELSE CHOOSE i \in hits : \A j \in hits : i <= j

\* find_one({"user_id": u})
FindOneByUser(s, u) ==
    LET Match(r) == r.user_id = u
        i == FirstIndex(s, Match, 1)
    IN  IF i = 0 THEN NoRecord ELSE s[i]

\* find_one({"beers.id": text}): the stored text is compared as it is.
FindOneByBeerId(s, text) ==
    LET Match(r) == \E k \in 1..Len(r.beers) : r.beers[k].id = text
        i == FirstIndex(s, Match, 1)
    IN  IF i = 0 THEN NoRecord ELSE s[i]

\* Variant of ReplaceOneUpsert: the document is inserted, matched or not.
InsertOne(s, u, doc) == Append(s, doc)

\* replace_one({"user_id": u}, doc, upsert=True)
ReplaceOneUpsert(s, u, doc) ==
    LET Match(r) == r.user_id = u
        i == FirstIndex(s, Match, 1)
    IN  IF i = 0 THEN Append(s, doc) ELSE [s EXCEPT ![i] = doc]

\* Variant of UpdateOneSet: a document left without events is removed.
UpdateOneOrRemove(s, u, beers, total_beers, total_ciders) ==
    LET Match(r) == r.user_id = u
        i == FirstIndex(s, Match, 1)
    IN  IF i = 0 THEN s
        ELSE IF beers = <<>>
        THEN SubSeq(s, 1, i - 1) \o SubSeq(s, i + 1, Len(s))
        ELSE [s EXCEPT ![i] = [@ EXCEPT !.beers = beers,
                                        !.total_beers = total_beers,
                                        !.total_ciders = total_ciders]]

\* update_one({"user_id": u}, {"$set": {beers, total_beers, total_ciders}})
UpdateOneSet(s, u, beers, total_beers, total_ciders) ==
    LET Match(r) == r.user_id = u
        i == FirstIndex(s, Match, 1)
    IN  IF i = 0 THEN s
        ELSE [s EXCEPT ![i] = [@ EXCEPT !.beers = beers,
                                        !.total_beers = total_beers,
                                        !.total_ciders = total_ciders]]

(***************************************************************************)
(* log_beer                                                                *)
(***************************************************************************)
\* The document log_beer starts from when the user has none.
DefaultUserData(u, name) ==
    [user_id |-> u, username |-> name, beers |-> <<>>,
     total_beers |-> 0, total_ciders |-> 0]

\* Variant of AppendBeer: the new event is put in front.
PrependBeer(beers, beer) == <<beer>> \o beers

\* user_data["beers"].append({...})
AppendBeer(beers, beer) == Append(beers, beer)

\* Variant of BumpTotals: every drink is counted as a beer.
BumpTotalsBeerOnly(user_data, drink_type) ==
    [user_data EXCEPT !.total_beers = @ + 1]

\* The counter update of log_beer.
BumpTotals(user_data, drink_type) ==
    IF drink_type = "beer"
    THEN [user_data EXCEPT !.total_beers = @ + 1]
    ELSE IF drink_type = "cider"
    THEN [user_data EXCEPT !.total_ciders = @ + 1]
    ELSE user_data

\* The document log_beer writes, from the one it loaded.
LoggedUserData(loaded, u, name, beer) ==
    LET user_data == IF loaded = NoRecord THEN DefaultUserData(u, name)
                     ELSE loaded
        appended == [user_data EXCEPT !.beers = AppendBeer(@, beer)]
        counted == BumpTotals(appended, beer.type)
    IN  [counted EXCEPT !.username = name]

\* The total log_beer names in its reply.
LogReplyTotal(user_data, drink_type) ==
    IF drink_type = "cider" THEN user_data.total_ciders
    ELSE user_data.total_beers

LogBeer(target, name, drink_type) ==
    /\ nextId < MaxIds
    /\ LET beer == [id |-> StrUuid4(nextId + 1), timestamp |-> clock,
                    type |-> drink_type]
           loaded == FindOneByUser(store, target)
           user_data == LoggedUserData(loaded, target, name, beer)
       IN  /\ store' = ReplaceOneUpsert(store, target, user_data)
           /\ last' = [op |-> "log_beer",
                       target |-> target, name |-> name,
                       drink_type |-> drink_type, beer |-> beer,
                       total |-> LogReplyTotal(user_data, drink_type),
                       reads |-> 1, writes |-> 1]
    /\ nextId' = nextId + 1
    /\ before' = store
    /\ answer' = NoAnswer
    /\ UNCHANGED <<clock, ticks, calls>>

(***************************************************************************)
(* beer_delete                                                             *)
(***************************************************************************)
\* Variant of RemoveBeer: the newest event is dropped, whatever its id.
RemoveNewestBeer(beers, text) == SubSeq(beers, 1, Len(beers) - 1)

\* updated_beers
RemoveBeer(beers, text) ==
    LET Keep(b) == b.id # text IN SelectWhere(beers, Keep)

\* Variant of DeletedBeers: the lookup in the loaded document fails.
DeletedBeersNone(beers, text) == <<>>

\* The generator (b for b in beers if b["id"] == beer_uuid): next() takes
\* its first element, and raises StopIteration when it is empty.
DeletedBeers(beers, text) ==
    LET Hit(b) == b.id = text IN SelectWhere(beers, Hit)

\* Variant of CountBeers: every remaining event is counted as a beer.
CountAllAsBeers(beers) == Len(beers)

\* The recount of beer_delete.
CountBeers(beers) == Len(SelectWhere(beers, IsBeer))

\* Variant of CountCiders: no event is counted as a cider.
CountCidersNone(beers) == 0

\* total_ciders of beer_delete.
CountCiders(beers) == Len(SelectWhere(beers, IsCider))

\* Variant of UuidRejected: no text is rejected.
UuidNeverRejected(text) == FALSE

\* The check of the uuid text before the collection is touched.
UuidRejected(text) == ~ParseUuid(text).ok

\* Variant of DeleteForbidden: anyone may delete.
DeleteNeverForbidden(user_data, caller) == FALSE

\* The permission check.
DeleteForbidden(user_data, caller) == user_data.user_id # caller

\* History: the command before this one was a beer_delete of the same text
\* that deleted it.
DeletedJustBefore(text) ==
    /\ last.op = "beer_delete"
    /\ last.outcome = "deleted"
    /\ last.beer_uuid = text

BeerDelete(caller, text) ==
    LET user_data == FindOneByBeerId(store, text)
        Reply(outcome, reads, writes) ==
            [op |-> "beer_delete", caller |-> caller,
             beer_uuid |-> text, outcome |-> outcome,
             reads |-> reads, writes |-> writes,
             repeated |-> DeletedJustBefore(text)]
    IN  /\ before' = store
        /\ answer' = NoAnswer
        /\ UNCHANGED <<clock, nextId, ticks, calls>>
        /\ IF UuidRejected(text)
           THEN /\ last' = Reply("invalid", 0, 0)
                /\ store' = store
           ELSE IF user_data = NoRecord
           THEN /\ last' = Reply("not_found", 1, 0)
                /\ store' = store
           ELSE IF DeleteForbidden(user_data, caller)
           THEN /\ last' = Reply("forbidden", 1, 0)
                /\ store' = store
           ELSE LET updated_beers == RemoveBeer(user_data.beers, text)
                    found == DeletedBeers(user_data.beers, text)
                IN  IF found = <<>>
                    THEN /\ last' = Reply("not_found", 1, 0)
                         /\ store' = store
                    ELSE /\ last' = Reply("deleted", 1, 1)
                                    @@ [deleted_beer |-> Head(found)]
                         /\ store' = UpdateOneSet(store, user_data.user_id,
                                                  updated_beers,
                                                  CountBeers(updated_beers),
                                                  CountCiders(updated_beers))

(***************************************************************************)
(* my_beers                                                                *)
(***************************************************************************)
\* sorted(all_beers, key=timestamp, reverse=True): a stable sort, so events
\* with equal timestamps keep the order they have in all_beers.
RECURSIVE SortedNewestFirst(_)
SortedNewestFirst(beers) ==
    IF beers = <<>> THEN <<>>
    ELSE LET x == beers[Len(beers)]
             rest == SortedNewestFirst(SubSeq(beers, 1, Len(beers) - 1))
             k == Cardinality({i \in 1..Len(rest) :
                                  rest[i].timestamp >= x.timestamp})
         IN  SubSeq(rest, 1, k) \o <<x>> \o SubSeq(rest, k + 1, Len(rest))

\* total_pages = (total_beers + limit - 1) // limit
TotalPages(total_beers, limit) == (total_beers + limit - 1) \div limit

\* all_beers[start_idx:end_idx]
PageItems(all_beers, page, limit) ==
    LET start_idx == (page - 1) * limit
        end_idx == start_idx + limit
    IN  Slice(all_beers, start_idx, end_idx)

\* not user_data or not user_data["beers"]
NothingLogged(user_data) == user_data = NoRecord \/ user_data.beers = <<>>

MyBeers(caller, limit, page, drink_type) ==
    LET user_data == FindOneByUser(store, caller)
        Reply(outcome) ==
            [op |-> "my_beers", caller |-> caller, limit |-> limit,
             page |-> page, drink_type |-> drink_type, outcome |-> outcome,
             reads |-> 1, writes |-> 0]
    IN  /\ UNCHANGED <<store, clock, nextId, ticks, before, last, calls>>
        /\ IF NothingLogged(user_data)
           THEN answer' = Reply("nothing_logged")
           ELSE LET all_beers ==
                        SortedNewestFirst(
                            FilterByType(user_data.beers, drink_type))
                    total_beers == Len(all_beers)
                    total_pages == TotalPages(total_beers, limit)
                IN  IF page > total_pages
                    THEN answer' = Reply("no_such_page")
                                 @@ [total_pages |-> total_pages]
                    ELSE answer' = Reply("page")
                                 @@ [total_pages |-> total_pages,
                                     total_beers |-> total_beers,
                                     items |-> PageItems(all_beers, page,
                                                         limit)]

(***************************************************************************)
(* beer_stats                                                              *)
(***************************************************************************)
\* timedelta(days=n) in seconds
Days(n) == n * SecondsPerDay

\* cutoff of beer_stats
StatsCutoff(now, period) ==
    IF period = "day" THEN now - Days(1)
    ELSE IF period = "week" THEN now - Days(DaysPerWeek)
    ELSE IF period = "month" THEN now - Days(DaysPerMonth)
    ELSE now - Days(DaysPerYear)

\* [b for b in beers if ts_to_prague_time(b["timestamp"]) >= cutoff]
FilterByCutoff(beers, cutoff) ==
    LET Keep(b) == b.timestamp >= cutoff IN SelectWhere(beers, Keep)

\* The count read from the stored totals when no period is given.
TotalsCount(user_data, drink_type) ==
    IF drink_type = "all" THEN user_data.total_beers + user_data.total_ciders
    ELSE IF drink_type = "beer" THEN user_data.total_beers
    ELSE user_data.total_ciders

\* count of beer_stats
StatsCount(user_data, drink_type, period, now) ==
    IF period # "none"
    THEN Len(FilterByCutoff(FilterByType(user_data.beers, drink_type),
                            StatsCutoff(now, period)))
    ELSE TotalsCount(user_data, drink_type)

\* Variant of BeerStats: the user's document is reset by the command.
BeerStatsSaving(target, period, drink_type) ==
    /\ answer' = [op |-> "beer_stats", target |-> target, period |-> period,
                  drink_type |-> drink_type, outcome |-> "count",
                  now |-> clock, reads |-> 1, writes |-> 1, count |-> 0]
    /\ store' = ReplaceOneUpsert(store, target,
                                 DefaultUserData(target, UserName(target)))
    /\ UNCHANGED <<clock, nextId, ticks, before, last, calls>>

BeerStats(target, period, drink_type) ==
    LET user_data == FindOneByUser(store, target)
        Reply(outcome) ==
            [op |-> "beer_stats", target |-> target, period |-> period,
             drink_type |-> drink_type, outcome |-> outcome, now |-> clock,
             reads |-> 1, writes |-> 0]
    IN  /\ UNCHANGED <<store, clock, nextId, ticks, before, last, calls>>
        /\ IF NothingLogged(user_data)
           THEN answer' = Reply("nothing_logged")
           ELSE answer' = Reply("count")
                        @@ [count |-> StatsCount(user_data, drink_type,
                                                 period, clock)]

(***************************************************************************)
(* beer_leaderboard                                                        *)
(***************************************************************************)
\* now.replace(hour=0, minute=0, second=0, microsecond=0)
StartOfDay(now) == now - (now % SecondsPerDay)

\* cutoff of beer_leaderboard
LeaderboardCutoff(now, period) ==
    IF period = "day" THEN StartOfDay(now)
    ELSE IF period = "week" THEN now - Days(DaysPerWeek)
    ELSE IF period = "month" THEN now - Days(DaysPerMonth)
    ELSE now - Days(DaysPerYear)

\* total_count of beer_leaderboard
LeaderboardCount(user_data, drink_type, period, now) ==
    IF period # "none"
    THEN Len(FilterByCutoff(FilterByType(user_data.beers, drink_type),
                            LeaderboardCutoff(now, period)))
    ELSE TotalsCount(user_data, drink_type)

\* The tuple appended to leaderboard.
LeaderboardEntry(user_data, total_count) ==
    [username |-> user_data.username, count |-> total_count,
     user_id |-> user_data.user_id, total_beers |-> user_data.total_beers,
     total_ciders |-> user_data.total_ciders]

\* The loop over all_users.
RECURSIVE LeaderboardRows(_, _, _, _)
LeaderboardRows(all_users, drink_type, period, now) ==
    IF all_users = <<>> THEN <<>>
    ELSE LET user_data == Head(all_users)
             rest == LeaderboardRows(Tail(all_users), drink_type, period, now)
             total_count == LeaderboardCount(user_data, drink_type, period,
                                             now)
         IN  IF user_data.beers = <<>> THEN rest
             ELSE IF total_count > 0
             THEN <<LeaderboardEntry(user_data, total_count)>> \o rest
             ELSE rest

\* Variant of SortedByCount: the rows stay in scan order.
UnsortedByCount(rows) == rows

\* leaderboard.sort(key=count, reverse=True): stable.
RECURSIVE SortedByCount(_)
SortedByCount(rows) ==
    IF rows = <<>> THEN <<>>
    ELSE LET x == rows[Len(rows)]
             rest == SortedByCount(SubSeq(rows, 1, Len(rows) - 1))
             k == Cardinality({i \in 1..Len(rest) : rest[i].count >= x.count})
         IN  SubSeq(rest, 1, k) \o <<x>> \o SubSeq(rest, k + 1, Len(rest))

\* leaderboard after the sort and leaderboard[:limit]
Leaderboard(all_users, drink_type, period, now, limit) ==
    Slice(SortedByCount(LeaderboardRows(all_users, drink_type, period, now)),
          0, limit)

BeerLeaderboard(period, limit, drink_type) ==
    LET all_users == store
        Reply(outcome) ==
            [op |-> "beer_leaderboard", period |-> period, limit |-> limit,
             drink_type |-> drink_type, outcome |-> outcome, now |-> clock,
             reads |-> 1, writes |-> 0]
    IN  /\ UNCHANGED <<store, clock, nextId, ticks, before, last, calls>>
        /\ IF all_users = <<>>
           THEN answer' = Reply("nothing_logged")
           ELSE LET leaderboard ==
                        Leaderboard(all_users, drink_type, period, clock,
                                    limit)
                IN  IF leaderboard = <<>>
                    THEN answer' = Reply("nothing_in_period")
                    ELSE answer' = Reply("board")
                                 @@ [leaderboard |-> leaderboard]

(***************************************************************************)
(* beer_last                                                               *)
(***************************************************************************)
\* Variant of Plural: the unit word always takes its "s".
PluralAlways(n) == TRUE

\* "s" if n != 1 else ""
Plural(n) == n # 1

\* The time formatting of beer_last, time_diff in whole seconds.
RelativeAge(time_diff) ==
    IF time_diff < SecondsPerMinute
    THEN [text |-> "just now", n |-> 0, plural |-> FALSE]
    ELSE IF time_diff < SecondsPerHour
    THEN LET minutes == time_diff \div SecondsPerMinute
         IN  [text |-> "minute", n |-> minutes, plural |-> Plural(minutes)]
    ELSE IF time_diff < Days(1)
    THEN LET hours == time_diff \div SecondsPerHour
         IN  [text |-> "hour", n |-> hours, plural |-> Plural(hours)]
    ELSE IF time_diff < Days(DaysPerMonth)
    THEN LET days == time_diff \div SecondsPerDay
         IN  [text |-> "day", n |-> days, plural |-> Plural(days)]
    ELSE IF time_diff < Days(DaysPerYear)
    THEN LET months == (time_diff \div SecondsPerDay) \div DaysPerMonth
         IN  [text |-> "month", n |-> months, plural |-> Plural(months)]
    ELSE LET years == (time_diff \div SecondsPerDay) \div DaysPerYear
         IN  [text |-> "year", n |-> years, plural |-> Plural(years)]

BeerLast(target, drink_type) ==
    LET user_data == FindOneByUser(store, target)
        Reply(outcome) ==
            [op |-> "beer_last", target |-> target,
             drink_type |-> drink_type, outcome |-> outcome, now |-> clock,
             reads |-> 1, writes |-> 0]
    IN  /\ UNCHANGED <<store, clock, nextId, ticks, before, last, calls>>
        /\ IF NothingLogged(user_data)
           THEN answer' = Reply("nothing_logged")
           ELSE LET of_type == FilterByType(user_data.beers, drink_type)
                IN  IF of_type = <<>>
                    THEN answer' = Reply("IndexError")
                    ELSE LET last_beer == of_type[Len(of_type)]
                         IN  answer' = Reply("last")
                                 @@ [last_beer |-> last_beer,
                                     time_str |-> RelativeAge(
                                         clock - last_beer.timestamp)]

(***************************************************************************)
(* The clock.                                                              *)
(***************************************************************************)
Tick(d) ==
    /\ ticks < MaxTicks
    /\ clock' = clock + d
    /\ ticks' = ticks + 1
    /\ answer' = NoAnswer
    /\ UNCHANGED <<store, nextId, before, last, calls>>

(***************************************************************************)
(* Initial state: an empty collection, no uuid drawn yet, no command       *)
(* suspended.                                                              *)
(***************************************************************************)
Init ==
    /\ store = <<>>
    /\ nextId = 0
    /\ clock = StartClock
    /\ ticks = 0
    /\ before = store
    /\ last = [op |-> "none"]
    /\ answer = NoAnswer
    /\ calls = EmptyBag

\* The writing commands, issued at one instant.
Next ==
    \/ \E u \in Users, t \in DrinkTypes :
          \E name \in NamesOf(u) : LogBeer(u, name, t)
    \/ \E u \in Users, text \in UuidTexts : BeerDelete(u, text)

Spec == Init /\ [][Next]_vars

(***************************************************************************)
(* The writing and the reading commands.  The writing commands are kept    *)
(* to one name per user, canonical uuid texts and MaxQueryIds events.      *)
(*                                                                         *)
(* A reading command changes answer only; every command and clock step     *)
(* sets answer and none reads it.  A step that follows a reading command   *)
(* therefore reaches the state it reaches without that reading command,    *)
(* and the search takes a step only when no reading command has just       *)
(* replied (Idle), which leaves out no state.                              *)
(***************************************************************************)
Idle == answer = NoAnswer

QueryLogBeer(u, t) == Idle /\ nextId < MaxQueryIds /\ LogBeer(u, UserName(u), t)

QueryBeerDelete(u, n) == Idle /\ BeerDelete(u, StrUuid4(n))

QueryTick(d) == Idle /\ Tick(d)

Reads ==
    \/ \E u \in Users, limit \in Limits, page \in Pages, t \in TypeFilters :
          Idle /\ MyBeers(u, limit, page, t)
    \/ \E u \in Users, period \in Periods, t \in TypeFilters :
          Idle /\ BeerStats(u, period, t)
    \/ \E period \in Periods, limit \in BoardLimits, t \in TypeFilters :
          Idle /\ BeerLeaderboard(period, limit, t)
    \/ \E u \in Users, t \in TypeFilters : Idle /\ BeerLast(u, t)

\* Issued at one instant.
NextQuery ==
    \/ \E u \in Users, t \in DrinkTypes : QueryLogBeer(u, t)
    \/ \E u \in Users, n \in 1..MaxQueryIds : QueryBeerDelete(u, n)
    \/ Reads

SpecQuery == Init /\ [][NextQuery]_vars

\* With the clock advancing between commands.
NextClock ==
    \/ \E u \in Users, t \in DrinkTypes : QueryLogBeer(u, t)
    \/ \E u \in Users, n \in 1..MaxQueryIds : QueryBeerDelete(u, n)
    \/ \E d \in Deltas : QueryTick(d)
    \/ Reads

SpecClock == Init /\ [][NextClock]_vars

(***************************************************************************)
(* The leaderboard: up to MaxIds events, deletes by the owner of the event *)
(* deleted, and beer_leaderboard.                                          *)
(***************************************************************************)
BoardLogBeer(u, t) == Idle /\ LogBeer(u, UserName(u), t)

BoardBeerDelete(u, n) ==
    /\ Idle
    /\ FindOneByBeerId(store, StrUuid4(n)).user_id = u
    /\ BeerDelete(u, StrUuid4(n))

BoardBeerLeaderboard(period, limit, t) ==
    Idle /\ BeerLeaderboard(period, limit, t)

NextBoard ==
    \/ \E u \in Users, t \in DrinkTypes : BoardLogBeer(u, t)
    \/ \E u \in Users, n \in 1..MaxIds : BoardBeerDelete(u, n)
    \/ \E period \in Periods, limit \in BoardLimits, t \in TypeFilters :
          BoardBeerLeaderboard(period, limit, t)

SpecBoard == Init /\ [][NextBoard]_vars

(***************************************************************************)
(* The age of the last event: one event of one user, one clock step of a   *)
(* length at or next to a multiple of a unit of beer_last, and beer_last.  *)
(***************************************************************************)
\* The units of the time formatting of beer_last, in seconds.
AgeUnits ==
    {SecondsPerMinute, SecondsPerHour, Days(1), Days(DaysPerMonth),
     Days(DaysPerYear)}

\* The lengths of the clock step.
AgeInputs ==
    {d \in {k * unit + e : k \in 0..MaxMultiple, unit \in AgeUnits,
                           e \in {-1, 0, 1}} : d >= 0}

AgeLogBeer(t) == Idle /\ store = <<>> /\ LogBeer(1, UserName(1), t)

AgeTick(d) == Idle /\ ticks = 0 /\ Tick(d)

AgeBeerLast(t) == Idle /\ BeerLast(1, t)

NextAge ==
    \/ \E t \in DrinkTypes : AgeLogBeer(t)
    \/ \E d \in AgeInputs : AgeTick(d)
    \/ \E t \in TypeFilters : AgeBeerLast(t)

SpecAge == Init /\ [][NextAge]_vars

(***************************************************************************)
(* The writing commands as coroutines.  A command runs from one await to   *)
(* the next in one step, and the collection executes the find_one,         *)
(* replace_one or update_one it awaits at the start of the step that       *)
(* resumes it; between two steps of one command the steps of other         *)
(* commands and of the clock may run.  A command that has replied leaves   *)
(* calls.  The reply of a suspended command is a function of what it       *)
(* holds (LogReply, DeleteReply); last and before are kept only by the     *)
(* commands that run in one step, and last by RaceBeerDeleteReplied.       *)
(***************************************************************************)
\* The bag of suspended commands with one more, and with one less.
Suspend(bag, c) == bag (+) SetToBag({c})

Resume(bag, c) == bag (-) SetToBag({c})

\* log_beer up to its first await: the timestamp is taken, find_one is sent.
LogBeerStart(target, name, drink_type) ==
    /\ BagCardinality(calls) < MaxCalls
    /\ calls' = Suspend(calls, [op |-> "log_beer", pc |-> "find_one",
                                target |-> target, name |-> name,
                                drink_type |-> drink_type,
                                current_time |-> clock])
    /\ answer' = NoAnswer
    /\ UNCHANGED <<store, clock, nextId, ticks, before, last>>

\* The reply of the log_beer c that has loaded: the total it computed.
LogReply(c) ==
    [op |-> "log_beer", target |-> c.target, name |-> c.name,
     drink_type |-> c.drink_type, beer |-> c.beer,
     total |-> LogReplyTotal(c.user_data, c.drink_type)]

\* find_one answers: the event is appended to the loaded document, the
\* totals and the username are set, replace_one is sent.
LogBeerLoad(c) ==
    /\ c.op = "log_beer"
    /\ c.pc = "find_one"
    /\ nextId < MaxIds
    /\ LET loaded == FindOneByUser(store, c.target)
           beer == [id |-> StrUuid4(nextId + 1),
                    timestamp |-> c.current_time, type |-> c.drink_type]
           user_data == LoggedUserData(loaded, c.target, c.name, beer)
       IN  calls' = Suspend(Resume(calls, c),
                        [op |-> "log_beer", pc |-> "replace_one",
                         target |-> c.target, name |-> c.name,
                         drink_type |-> c.drink_type,
                         current_time |-> c.current_time,
                         loaded |-> loaded, beer |-> beer,
                         user_data |-> user_data])
    /\ nextId' = nextId + 1
    /\ answer' = NoAnswer
    /\ UNCHANGED <<store, clock, ticks, before, last>>

\* replace_one is executed and log_beer replies with LogReply(c).
LogBeerPersist(c) ==
    /\ c.op = "log_beer"
    /\ c.pc = "replace_one"
    /\ store' = ReplaceOneUpsert(store, c.target, c.user_data)
    /\ calls' = Resume(calls, c)
    /\ answer' = NoAnswer
    /\ UNCHANGED <<clock, nextId, ticks, before, last>>

\* The reply of a beer_delete.
DeleteReply(caller, text, outcome) ==
    [op |-> "beer_delete", caller |-> caller, beer_uuid |-> text,
     outcome |-> outcome]

\* The outcome of the beer_delete c when find_one returns user_data: the
\* reply it ends with, or "update_one" when it goes on to write.
DeleteLoadOutcome(c, user_data) ==
    IF user_data = NoRecord THEN "not_found"
    ELSE IF DeleteForbidden(user_data, c.caller) THEN "forbidden"
    ELSE IF DeletedBeers(user_data.beers, c.beer_uuid) = <<>>
    THEN "not_found"
    ELSE "update_one"

\* beer_delete up to its first await: the text is validated and find_one is
\* sent, or the command ends with DeleteReply(caller, text, "invalid").
BeerDeleteStart(caller, text) ==
    /\ BagCardinality(calls) < MaxCalls
    /\ IF UuidRejected(text)
       THEN calls' = calls
       ELSE calls' = Suspend(calls, [op |-> "beer_delete",
                                     pc |-> "find_one",
                                     caller |-> caller,
                                     beer_uuid |-> text])
    /\ answer' = NoAnswer
    /\ UNCHANGED <<store, clock, nextId, ticks, before, last>>

\* find_one answers: the owner is checked, the remaining events and their
\* totals are computed from the loaded document, update_one is sent; or the
\* command ends with DeleteReply(c.caller, c.beer_uuid, outcome).
BeerDeleteLoad(c) ==
    /\ c.op = "beer_delete"
    /\ c.pc = "find_one"
    /\ LET user_data == FindOneByBeerId(store, c.beer_uuid)
           outcome == DeleteLoadOutcome(c, user_data)
       IN  IF outcome # "update_one" THEN calls' = Resume(calls, c)
           ELSE LET updated_beers == RemoveBeer(user_data.beers, c.beer_uuid)
                    found == DeletedBeers(user_data.beers, c.beer_uuid)
                IN  calls' = Suspend(Resume(calls, c),
                                [op |-> "beer_delete", pc |-> "update_one",
                                 caller |-> c.caller,
                                 beer_uuid |-> c.beer_uuid,
                                 user_data |-> user_data,
                                 updated_beers |-> updated_beers,
                                 deleted_beer |-> Head(found),
                                 total_beers |-> CountBeers(updated_beers),
                                 total_ciders |-> CountCiders(updated_beers)])
    /\ answer' = NoAnswer
    /\ UNCHANGED <<store, clock, nextId, ticks, before, last>>

\* update_one is executed and beer_delete replies with
\* DeleteReply(c.caller, c.beer_uuid, "deleted") and c.deleted_beer.
BeerDeletePersist(c) ==
    /\ c.op = "beer_delete"
    /\ c.pc = "update_one"
    /\ store' = UpdateOneSet(store, c.user_data.user_id, c.updated_beers,
                             c.total_beers, c.total_ciders)
    /\ calls' = Resume(calls, c)
    /\ answer' = NoAnswer
    /\ UNCHANGED <<clock, nextId, ticks, before, last>>

\* The suspended commands.
Suspended == BagToSet(calls)

\* The number of log_beer commands that have not drawn their uuid yet.
AwaitingUuid ==
    BagCardinality(
        [c \in {x \in Suspended : x.op = "log_beer" /\ x.pc = "find_one"}
            |-> calls[c]])

RaceLogBeerStart(u, t) ==
    /\ Idle
    /\ nextId + AwaitingUuid < MaxQueryIds
    /\ LogBeerStart(u, UserName(u), t)

RaceLogBeerLoad(c) == Idle /\ LogBeerLoad(c)

RaceLogBeerPersist(c) == Idle /\ LogBeerPersist(c)

\* A caller names the id of an event of theirs that the collection holds.
RaceBeerDeleteStart(u, n) ==
    /\ Idle
    /\ FindOneByBeerId(store, StrUuid4(n)).user_id = u
    /\ BeerDeleteStart(u, StrUuid4(n))

RaceBeerDeleteLoad(c) == Idle /\ BeerDeleteLoad(c)

RaceBeerDeletePersist(c) == Idle /\ BeerDeletePersist(c)

\* The log_beer and beer_delete commands of up to MaxCalls callers at a
\* time, issued at one instant.
NextRace ==
    \/ \E u \in Users, t \in DrinkTypes : RaceLogBeerStart(u, t)
    \/ \E c \in Suspended : RaceLogBeerLoad(c)
    \/ \E c \in Suspended : RaceLogBeerPersist(c)
    \/ \E u \in Users, n \in 1..MaxQueryIds : RaceBeerDeleteStart(u, n)
    \/ \E c \in Suspended : RaceBeerDeleteLoad(c)
    \/ \E c \in Suspended : RaceBeerDeletePersist(c)

SpecRace == Init /\ [][NextRace]_vars

\* The step by which the clock advances while commands are suspended: a
\* second.
RaceDeltas == {1}

RaceTick(d) == Idle /\ Tick(d)

RaceBeerLast(u, t) == Idle /\ BeerLast(u, t)

\* The log_beer commands of up to MaxCalls callers at a time with the clock
\* advancing between their steps, and beer_last.
NextRaceClock ==
    \/ \E u \in Users, t \in DrinkTypes : RaceLogBeerStart(u, t)
    \/ \E c \in Suspended : RaceLogBeerLoad(c)
    \/ \E c \in Suspended : RaceLogBeerPersist(c)
    \/ \E d \in RaceDeltas : RaceTick(d)
    \/ \E u \in Users, t \in TypeFilters : RaceBeerLast(u, t)

SpecRaceClock == Init /\ [][NextRaceClock]_vars

AloneLogBeerStart(u, t) == calls = EmptyBag /\ RaceLogBeerStart(u, t)

AloneBeerDeleteStart(u, n) == calls = EmptyBag /\ RaceBeerDeleteStart(u, n)

\* One log_beer or beer_delete command at a time, and the reading commands
\* before, between and after its steps.
NextRaceQuery ==
    \/ \E u \in Users, t \in DrinkTypes : AloneLogBeerStart(u, t)
    \/ \E c \in Suspended : RaceLogBeerLoad(c)
    \/ \E c \in Suspended : RaceLogBeerPersist(c)
    \/ \E u \in Users, n \in 1..MaxQueryIds : AloneBeerDeleteStart(u, n)
    \/ \E c \in Suspended : RaceBeerDeleteLoad(c)
    \/ \E c \in Suspended : RaceBeerDeletePersist(c)
    \/ Reads

SpecRaceQuery == Init /\ [][NextRaceQuery]_vars

\* update_one is executed and beer_delete replies that the event is deleted;
\* last keeps that reply until the next beer_delete that deletes.
RaceBeerDeleteReplied(c) ==
    /\ Idle
    /\ c.op = "beer_delete"
    /\ c.pc = "update_one"
    /\ store' = UpdateOneSet(store, c.user_data.user_id, c.updated_beers,
                             c.total_beers, c.total_ciders)
    /\ calls' = Resume(calls, c)
    /\ last' = DeleteReply(c.caller, c.beer_uuid, "deleted")
    /\ answer' = NoAnswer
    /\ UNCHANGED <<clock, nextId, ticks, before>>

\* The log_beer and beer_delete commands of up to MaxCalls callers at a
\* time, with the reply of the last beer_delete that deleted.
NextRaceDelete ==
    \/ \E u \in Users, t \in DrinkTypes : RaceLogBeerStart(u, t)
    \/ \E c \in Suspended : RaceLogBeerLoad(c)
    \/ \E c \in Suspended : RaceLogBeerPersist(c)
    \/ \E u \in Users, n \in 1..MaxQueryIds : RaceBeerDeleteStart(u, n)
    \/ \E c \in Suspended : RaceBeerDeleteLoad(c)
    \/ \E c \in Suspended : RaceBeerDeleteReplied(c)

SpecRaceDelete == Init /\ [][NextRaceDelete]_vars

(***************************************************************************)
(* Properties of the writing commands, checked under Spec.                 *)
(***************************************************************************)
\* The events of a log that count as type t, a missing type counting as beer.
EventsOfType(beers, t) ==
    {k \in 1..Len(beers) :
        \/ beers[k].type = t
        \/ t = "beer" /\ beers[k].type = Missing}

\* The documents of a collection that hold an event with this id text.
HoldersOf(s, text) ==
    {i \in 1..Len(s) : \E k \in 1..Len(s[i].beers) : s[i].beers[k].id = text}

\* The events of user u in a collection, none when u has no document.
BeersOf(s, u) ==
    IF FindOneByUser(s, u) = NoRecord THEN <<>> ELSE FindOneByUser(s, u).beers

\* Every document of the other users is as it was before the last command.
OthersUnchanged(u) ==
    /\ \A i \in 1..Len(before) :
          before[i].user_id # u => i <= Len(store) /\ store[i] = before[i]
    /\ \A i \in 1..Len(store) :
          store[i].user_id # u => i <= Len(before) /\ before[i] = store[i]

\* C1: after any sequence of log_beer and beer_delete commands, each run to
\* completion, every document has total_beers = number of beer events (a
\* missing type counts as beer), total_ciders = number of cider events, and
\* the two totals add up to the number of events.
C1_TotalsMatchEvents ==
    \A i \in 1..Len(store) :
        /\ store[i].total_beers =
               Cardinality(EventsOfType(store[i].beers, "beer"))
        /\ store[i].total_ciders =
               Cardinality(EventsOfType(store[i].beers, "cider"))
        /\ store[i].total_beers + store[i].total_ciders = Len(store[i].beers)

\* A document holding a beer and a cider, after one of its events was deleted.
C1_Witness ==
    /\ last.op = "beer_delete"
    /\ last.outcome = "deleted"
    /\ \E i \in 1..Len(store) :
          /\ store[i].user_id = last.caller
          /\ store[i].total_beers >= 1
          /\ store[i].total_ciders >= 1

\* C2: beer_delete with the id of an event in a document of another user
\* replies Forbidden and leaves every document as it was.
C2_ForeignDeleteForbidden ==
    (/\ last.op = "beer_delete"
     /\ \E i \in HoldersOf(before, last.beer_uuid) :
           before[i].user_id # last.caller)
    => (last.outcome = "forbidden" /\ store = before)

\* A refused delete, caller and owner both having a document.
C2_Witness ==
    /\ last.op = "beer_delete"
    /\ last.outcome = "forbidden"
    /\ BeersOf(before, last.caller) # <<>>
    /\ \E i \in HoldersOf(before, last.beer_uuid) :
          before[i].user_id # last.caller

\* C3: a beer_delete of an id right after a beer_delete that deleted that id
\* replies NotFound and leaves the collection as the first one left it.
C3_SecondDeleteNotFound ==
    (last.op = "beer_delete" /\ last.repeated)
    => (last.outcome = "not_found" /\ store = before)

\* The second of two deletes of one id, the owner having other events left.
C3_Witness ==
    /\ last.op = "beer_delete"
    /\ last.repeated
    /\ BeersOf(store, last.caller) # <<>>

\* C4: beer_delete with a text that is not a well-formed uuid ends with the
\* validation reply, which is not the NotFound reply, without reading or
\* writing the collection, and leaves the collection unchanged.
C4_MalformedRejectedEarly ==
    (last.op = "beer_delete" /\ last.beer_uuid.form = "malformed")
    => /\ last.outcome = "invalid"
       /\ last.outcome # "not_found"
       /\ last.reads = 0
       /\ last.writes = 0
       /\ store = before

\* A malformed text sent while the collection holds events.
C4_Witness ==
    /\ last.op = "beer_delete"
    /\ last.beer_uuid.form = "malformed"
    /\ last.outcome = "invalid"
    /\ \E i \in 1..Len(store) : store[i].beers # <<>>

\* C5: a log_beer run to completion appends exactly one new event, with an id
\* no document held, at the end of the user's events, keeps the earlier events
\* in order, leaves the other users' documents unchanged, and replies with
\* the number of events of that type now in the user's log.
C5_LogAppendsOne ==
    last.op = "log_beer"
    => /\ BeersOf(store, last.target) =
              BeersOf(before, last.target) \o <<last.beer>>
       /\ HoldersOf(before, last.beer.id) = {}
       /\ last.beer.type = last.drink_type
       /\ OthersUnchanged(last.target)
       /\ last.total =
              Cardinality(EventsOfType(BeersOf(store, last.target),
                                       last.drink_type))

\* A log for a user who had events already, next to another user's document.
C5_Witness ==
    /\ last.op = "log_beer"
    /\ BeersOf(before, last.target) # <<>>
    /\ Len(before) >= 2
    /\ last.total >= 2

\* C6: a beer_delete by the owner of the event removes exactly that event,
\* keeps the other events of the document in their order, leaves user_id and
\* the other users' documents unchanged, and replies with the removed event.
C6_DeleteRemovesOne ==
    (/\ last.op = "beer_delete"
     /\ \E i \in HoldersOf(before, last.beer_uuid) :
           before[i].user_id = last.caller)
    => /\ last.outcome = "deleted"
       /\ LET old == BeersOf(before, last.caller)
              new == BeersOf(store, last.caller)
          IN  \E k \in 1..Len(old) :
                 /\ old[k].id = last.beer_uuid
                 /\ new = SubSeq(old, 1, k - 1) \o SubSeq(old, k + 1, Len(old))
                 /\ last.deleted_beer = old[k]
       /\ FindOneByUser(store, last.caller) # NoRecord
       /\ OthersUnchanged(last.caller)

\* The middle one of three events deleted by its owner.
C6_Witness ==
    /\ last.op = "beer_delete"
    /\ last.outcome = "deleted"
    /\ Len(BeersOf(before, last.caller)) = 3
    /\ BeersOf(before, last.caller)[2].id = last.beer_uuid
    /\ Len(BeersOf(store, last.caller)) = 2

(***************************************************************************)
(* Properties of the reading commands, checked under SpecQuery and         *)
(* SpecClock.                                                              *)
(***************************************************************************)
\* The document of the user a leaderboard row is about.
RowDocument(row) == FindOneByUser(store, row.user_id)

\* C7: with no period, the count beer_stats reports and the count of every
\* beer_leaderboard row, both read from the stored totals, equal the number
\* of events the type filter leaves of the whole log.
C7_TotalsAgreeWithFilter ==
    /\ (answer.op = "beer_stats" /\ answer.period = "none"
            /\ answer.outcome = "count")
       => answer.count =
              Len(FilterByType(BeersOf(store, answer.target),
                               answer.drink_type))
    /\ (answer.op = "beer_leaderboard" /\ answer.period = "none"
            /\ answer.outcome = "board")
       => \A k \in 1..Len(answer.leaderboard) :
             answer.leaderboard[k].count =
                 Len(FilterByType(RowDocument(answer.leaderboard[k]).beers,
                                  answer.drink_type))
    /\ \A i \in 1..Len(store), t \in TypeFilters :
          /\ StatsCount(store[i], t, "none", clock) =
                 Len(FilterByType(store[i].beers, t))
          /\ LeaderboardCount(store[i], t, "none", clock) =
                 Len(FilterByType(store[i].beers, t))

\* An all-time cider count of a user who holds a beer as well.
C7_Witness ==
    /\ answer.op = "beer_stats"
    /\ answer.period = "none"
    /\ answer.drink_type = "cider"
    /\ answer.outcome = "count"
    /\ answer.count = 1
    /\ Len(BeersOf(store, answer.target)) = 2

\* The cutoffs as rolling windows: a day is 24 hours.
RollingCutoff(now, period) ==
    IF period = "day" THEN now - 24 * SecondsPerHour
    ELSE IF period = "week" THEN now - 7 * 24 * SecondsPerHour
    ELSE IF period = "month" THEN now - 30 * 24 * SecondsPerHour
    ELSE now - 365 * 24 * SecondsPerHour

\* The events of a log of a type and not older than the rolling cutoff.
RollingCount(beers, drink_type, period, now) ==
    Cardinality({k \in 1..Len(beers) :
        /\ drink_type = "all" \/ k \in EventsOfType(beers, drink_type)
        /\ beers[k].timestamp >= RollingCutoff(now, period)})

\* C8: for every log, type, period in day, week, month, year and instant, the
\* count beer_leaderboard ranks a user by equals the number of events kept by
\* the type filter and then the rolling cutoff (24 hours, 7, 30, 365 days),
\* and so equals the count of beer_stats for the same arguments.
C8_LeaderboardCountIsRolling ==
    (answer.op = "beer_leaderboard" /\ answer.period # "none")
    => \A i \in 1..Len(store) :
          LET ranked == LeaderboardCount(store[i], answer.drink_type,
                                         answer.period, answer.now)
          IN  /\ ranked = RollingCount(store[i].beers, answer.drink_type,
                                       answer.period, answer.now)
              /\ ranked = StatsCount(store[i], answer.drink_type,
                                     answer.period, answer.now)

\* ceil(count / pageSize), at least 1.
PagesAtLeastOne(count, limit) ==
    IF count = 0 THEN 1 ELSE ((count - 1) \div limit) + 1

\* C9: my_beers for a user who has events, none of them of the requested
\* type, with page 1 shows a page with total_pages = 1 and no items; in
\* general total_pages = max(1, ceil(count / limit)).
C9_EmptyListHasOnePage ==
    /\ (/\ answer.op = "my_beers"
        /\ answer.page = 1
        /\ BeersOf(store, answer.caller) # <<>>
        /\ FilterByType(BeersOf(store, answer.caller),
                        answer.drink_type) = <<>>)
       => /\ answer.outcome = "page"
          /\ answer.total_pages = 1
          /\ answer.items = <<>>
    /\ (answer.op = "my_beers" /\ answer.outcome \in {"page", "no_such_page"})
       => answer.total_pages =
              PagesAtLeastOne(
                  Len(FilterByType(BeersOf(store, answer.caller),
                                   answer.drink_type)),
                  answer.limit)

\* C10: my_beers is refused exactly when page > total_pages, with
\* total_pages = max(1, ceil(count / limit)) named in the refusal, and shows
\* otherwise the items at positions (page-1)*limit+1 .. min(page*limit, count)
\* of the newest-first list.
C10_PageBeyondLastRefused ==
    (answer.op = "my_beers" /\ BeersOf(store, answer.caller) # <<>>)
    => LET sorted == SortedNewestFirst(
                         FilterByType(BeersOf(store, answer.caller),
                                      answer.drink_type))
           count == Len(sorted)
           pages == PagesAtLeastOne(count, answer.limit)
           first == (answer.page - 1) * answer.limit + 1
           final == IF answer.page * answer.limit < count
                    THEN answer.page * answer.limit ELSE count
       IN  IF answer.page > pages
           THEN answer.outcome = "no_such_page" /\ answer.total_pages = pages
           ELSE /\ answer.outcome = "page"
                /\ answer.total_pages = pages
                /\ answer.items = SubSeq(sorted, first, final)

\* The part of C10 the code keeps: the same with at least one event of the
\* requested type.
PageBeyondLastRefusedNonEmpty ==
    (/\ answer.op = "my_beers"
     /\ FilterByType(BeersOf(store, answer.caller), answer.drink_type) # <<>>)
    => C10_PageBeyondLastRefused

\* C12: beer_last for a user who has events, none of them of the requested
\* type, replies that there is no such event; it does not end in an
\* exception no handler of the command catches.
C12_EmptyFilterIsAbsent ==
    (/\ answer.op = "beer_last"
     /\ BeersOf(store, answer.target) # <<>>
     /\ FilterByType(BeersOf(store, answer.target), answer.drink_type) = <<>>)
    => answer.outcome # "IndexError"

(***************************************************************************)
(* Properties of the time formatting of beer_last, checked under SpecAge.  *)
(***************************************************************************)
\* C13: for an event d >= 0 whole seconds old, beer_last says "just now"
\* when d < 60, d div 60 minutes when d < 3600, d div 3600 hours when
\* d < 86400, d div 86400 days when d < 30 days, (d div 86400) div 30 months
\* when d < 365 days and (d div 86400) div 365 years otherwise; the unit
\* word is singular exactly when the number is 1, and the number is at
\* least 1 in every branch other than "just now".
C13_RelativeAgeBranches ==
    (answer.op = "beer_last" /\ answer.outcome = "last"
        /\ answer.now - answer.last_beer.timestamp >= 0)
    => LET d == answer.now - answer.last_beer.timestamp
           r == answer.time_str
           whole_days == d \div 86400
           Says(unit, n) ==
               /\ r.text = unit
               /\ r.n = n
               /\ r.plural = (n # 1)
               /\ n >= 1
       IN  IF d < 60 THEN r.text = "just now"
           ELSE IF d < 3600 THEN Says("minute", d \div 60)
           ELSE IF d < 86400 THEN Says("hour", d \div 3600)
           ELSE IF d < 30 * 86400 THEN Says("day", d \div 86400)
           ELSE IF d < 365 * 86400 THEN Says("month", whole_days \div 30)
           ELSE Says("year", whole_days \div 365)

\* An event one second short of 60 days old: "1 month ago".
C13_Witness ==
    /\ answer.op = "beer_last"
    /\ answer.outcome = "last"
    /\ answer.now - answer.last_beer.timestamp = 60 * 86400 - 1
    /\ answer.time_str = [text |-> "month", n |-> 1, plural |-> FALSE]

(***************************************************************************)
(* Properties of the ranking of beer_leaderboard, checked under SpecBoard. *)
(***************************************************************************)
\* The rows beer_leaderboard shows: none when it says nobody has a count.
BoardOf(a) == IF a.outcome = "board" THEN a.leaderboard ELSE <<>>

\* The scan position of the document a row is about.
ScanPosition(row) ==
    CHOOSE i \in 1..Len(store) : store[i].user_id = row.user_id

\* C14: beer_leaderboard shows the first min(limit, number of users with a
\* nonzero count) rows of the stable descending sort by count of the users
\* with a nonzero count, taken in scan order: every row is one user with the
\* count beer_leaderboard computes for them, no row has count 0, counts do
\* not increase down the board, no user left out has a larger count than a
\* user shown, and users with equal counts keep their scan order.
C14_RankIsStableTopK ==
    (answer.op = "beer_leaderboard" /\ store # <<>>)
    => LET board == BoardOf(answer)
           Count(i) == LeaderboardCount(store[i], answer.drink_type,
                                        answer.period, answer.now)
           nonzero == {i \in 1..Len(store) : Count(i) > 0}
           shown == {ScanPosition(board[k]) : k \in 1..Len(board)}
           size == IF answer.limit < Cardinality(nonzero)
                   THEN answer.limit ELSE Cardinality(nonzero)
       IN  /\ Len(board) = size
           /\ Cardinality(shown) = Len(board)
           /\ \A k \in 1..Len(board) :
                 /\ \E i \in nonzero : store[i].user_id = board[k].user_id
                 /\ board[k].count = Count(ScanPosition(board[k]))
                 /\ board[k].count > 0
           /\ \A k \in 1..Len(board), l \in 1..Len(board) :
                 k < l =>
                    /\ board[k].count >= board[l].count
                    /\ board[k].count = board[l].count
                       => ScanPosition(board[k]) < ScanPosition(board[l])
           /\ \A j \in nonzero \ shown, k \in 1..Len(board) :
                 /\ Count(j) <= board[k].count
                 /\ Count(j) = board[k].count
                    => ScanPosition(board[k]) < j

\* A board of one row for the user scanned second, who has more events than
\* the user scanned first.
C14_Witness ==
    /\ answer.op = "beer_leaderboard"
    /\ answer.outcome = "board"
    /\ answer.limit = 1
    /\ Len(store) = 2
    /\ Len(store[1].beers) = 1
    /\ Len(answer.leaderboard) = 1
    /\ answer.leaderboard[1].user_id = store[2].user_id
    /\ answer.leaderboard[1].count = 2

(***************************************************************************)
(* Properties of the order of my_beers, checked under SpecQuery.           *)
(***************************************************************************)
\* The position at which an event was inserted in a log.
InsertedAt(beers, b) == CHOOSE k \in 1..Len(beers) : beers[k].id = b.id

\* C17: the page my_beers shows is ordered newest first by timestamp, and of
\* two events with equal timestamps the one inserted later comes first.
C17_TiesNewestInsertedFirst ==
    (answer.op = "my_beers" /\ answer.outcome = "page")
    => LET beers == BeersOf(store, answer.caller)
           items == answer.items
       IN  \A k \in 1..Len(items), l \in 1..Len(items) :
              k < l =>
                 /\ items[k].timestamp >= items[l].timestamp
                 /\ items[k].timestamp = items[l].timestamp
                    => InsertedAt(beers, items[k]) > InsertedAt(beers, items[l])

\* What the code keeps of C17: newest first, and events with equal
\* timestamps in the order of their insertion.
TiesInInsertionOrder ==
    (answer.op = "my_beers" /\ answer.outcome = "page")
    => LET beers == BeersOf(store, answer.caller)
           items == answer.items
       IN  \A k \in 1..Len(items), l \in 1..Len(items) :
              k < l =>
                 /\ items[k].timestamp >= items[l].timestamp
                 /\ items[k].timestamp = items[l].timestamp
                    => InsertedAt(beers, items[k]) < InsertedAt(beers, items[l])

(***************************************************************************)
(* Properties of the writing commands as coroutines.                       *)
(***************************************************************************)
\* The events of a document as find_one returned it, none for no document.
LoadedBeers(loaded) == IF loaded = NoRecord THEN <<>> ELSE loaded.beers

\* The step is the write and the reply of the suspended log_beer c.
LogPersistStep(c) ==
    /\ c.op = "log_beer"
    /\ c.pc = "replace_one"
    /\ calls' = Resume(calls, c)

\* C15: two log_beer commands for one user can both load the document before
\* either writes it.  Both then reply with success, with the same total when
\* their types are equal, and the document holds what the later writer
\* loaded and its new event only: what was written since it loaded is lost.
\* Nothing is lost when the document is as the writer loaded it, and the
\* documents of the other users are left as they are.
C15_LastWriterWins ==
    [][\A c \in Suspended :
          LogPersistStep(c) =>
             LET u == c.target
                 loaded == LoadedBeers(c.loaded)
                 found == BeersOf(store, u)
                 written == BeersOf(store', u)
             IN  /\ written = loaded \o <<c.beer>>
                 /\ LogReply(c).beer = written[Len(written)]
                 /\ LogReply(c).total =
                        Cardinality(EventsOfType(loaded, c.drink_type)) + 1
                 /\ \A k \in 1..Len(found) :
                       (\A j \in 1..Len(loaded) : loaded[j] # found[k])
                       => \A j \in 1..Len(written) : written[j] # found[k]
                 /\ found = loaded => written = found \o <<c.beer>>
                 /\ \A v \in Users \ {u} :
                       FindOneByUser(store', v) = FindOneByUser(store, v)
                 /\ \A d \in Suspended :
                       (/\ d.op = "log_beer"
                        /\ d.pc = "replace_one"
                        /\ d.target = c.target
                        /\ d.loaded = c.loaded
                        /\ d.drink_type = c.drink_type)
                       => LogReply(d).total = LogReply(c).total]_vars

\* Two log_beer commands, and no other command, have drawn their uuid and
\* replied; the collection holds one document with one event only, and its
\* totals say 1.
C15_Witness ==
    /\ calls = EmptyBag
    /\ nextId = 2
    /\ Len(store) = 1
    /\ Len(store[1].beers) = 1
    /\ store[1].total_beers + store[1].total_ciders = 1

\* C18: in every reachable state the events of every document are stored in
\* non-decreasing timestamp order, also when log_beer commands for one user
\* interleave.
C18_StoredChronologically ==
    \A i \in 1..Len(store) :
        \A k \in 1..Len(store[i].beers), l \in 1..Len(store[i].beers) :
            k < l => store[i].beers[k].timestamp <= store[i].beers[l].timestamp

\* C11: the event beer_last reports has the latest timestamp of the events
\* it was asked about (all, or those of a type), in whatever order they are
\* stored.
C11_LastIsLatest ==
    (answer.op = "beer_last" /\ answer.outcome = "last")
    => LET of_type == FilterByType(BeersOf(store, answer.target),
                                   answer.drink_type)
       IN  \A k \in 1..Len(of_type) :
              of_type[k].timestamp <= answer.last_beer.timestamp

\* C16: a reading command (my_beers, beer_stats, beer_leaderboard,
\* beer_last) leaves every document as it is, whatever its arguments and
\* its reply, also when it runs while a log_beer or a beer_delete is
\* suspended between its find_one and its write; the suspended command is
\* left as it is as well.
C16_ReadsWriteNothing ==
    [][answer' # NoAnswer => (store' = store /\ calls' = calls)]_vars

\* A beer_stats reply given while a beer_delete waits for its update_one,
\* and a beer_leaderboard reply given while a log_beer waits for its
\* replace_one.
C16_Witness ==
    \/ /\ answer.op = "beer_stats"
       /\ \E c \in Suspended : c.op = "beer_delete" /\ c.pc = "update_one"
    \/ /\ answer.op = "beer_leaderboard"
       /\ \E c \in Suspended : c.op = "log_beer" /\ c.pc = "replace_one"

\* The step is the write and the reply of the suspended beer_delete c.
DeletePersistStep(c) ==
    /\ c.op = "beer_delete"
    /\ c.pc = "update_one"
    /\ calls' = Resume(calls, c)

\* C19: a document, once in the collection, stays in it with its user_id:
\* no step removes one.  A step that leaves a document without events (a
\* beer_delete of the user's last event) leaves it in the collection with
\* total_beers = total_ciders = 0.  A document is added only by the write of
\* a log_beer, for a user who has none.
C19_RecordsStay ==
    [][/\ Len(store') >= Len(store)
       /\ \A i \in 1..Len(store) :
             /\ store'[i].user_id = store[i].user_id
             /\ (store[i].beers # <<>> /\ store'[i].beers = <<>>)
                => /\ store'[i].total_beers = 0
                   /\ store'[i].total_ciders = 0
                   /\ \E c \in Suspended :
                         /\ DeletePersistStep(c)
                         /\ c.caller = store[i].user_id
       /\ Len(store') > Len(store)
          => /\ Len(store') = Len(store) + 1
             /\ FindOneByUser(store, store'[Len(store')].user_id) = NoRecord
             /\ \E c \in Suspended :
                   /\ LogPersistStep(c)
                   /\ c.target = store'[Len(store')].user_id]_vars

\* A beer_delete has removed the only event of a user, whose document is
\* still there, empty, next to the document of another user.
C19_Witness ==
    /\ calls = EmptyBag
    /\ Len(store) = 2
    /\ \E i \in 1..Len(store) :
          /\ store[i].beers = <<>>
          /\ store[i].total_beers = 0
          /\ store[i].total_ciders = 0

\* C20: under every interleaving of the load and write steps of log_beer
\* and beer_delete commands, every document, and every document a suspended
\* command is about to write, has total_beers = number of beer events and
\* total_ciders = number of cider events.
C20_TotalsMatchUnderRace ==
    LET Agree(beers, total_beers, total_ciders) ==
            /\ total_beers =
                   Cardinality({k \in 1..Len(beers) : beers[k].type = "beer"})
            /\ total_ciders =
                   Cardinality({k \in 1..Len(beers) : beers[k].type = "cider"})
    IN  /\ \A i \in 1..Len(store) :
              Agree(store[i].beers, store[i].total_beers,
                    store[i].total_ciders)
        /\ \A c \in Suspended :
              /\ c.pc = "replace_one"
                 => Agree(c.user_data.beers, c.user_data.total_beers,
                          c.user_data.total_ciders)
              /\ c.pc = "update_one"
                 => Agree(c.updated_beers, c.total_beers, c.total_ciders)

\* A beer_delete loaded a document of one beer and waits for its
\* update_one, while a log_beer has since written a cider to that document.
C20_Witness ==
    \E c \in Suspended :
        /\ c.op = "beer_delete"
        /\ c.pc = "update_one"
        /\ Len(c.user_data.beers) = 1
        /\ c.total_beers = 0
        /\ LET stored == FindOneByUser(store, c.caller)
           IN  /\ Len(stored.beers) = 2
               /\ stored.total_beers = 1
               /\ stored.total_ciders = 1

\* C21: once a beer_delete has replied that the event with id e is deleted,
\* no document contains an event with id e in any later state, also when a
\* log_beer for the same user loaded the document before the update_one of
\* the beer_delete and writes it after.  Stated for the last beer_delete
\* that replied so.
C21_DeletedStaysDeleted ==
    (last.op = "beer_delete" /\ last.outcome = "deleted")
    => \A i \in 1..Len(store) :
          \A k \in 1..Len(store[i].beers) :
              store[i].beers[k].id # last.beer_uuid

====
